---- MODULE Spec2Model ----
(***************************************************************************)
(* Plan-Solve recipe of granite-agent-cookbook: the outer PlanSolve graph  *)
(* (planner_node -> function_calling_agent -> replan -> should_end) and    *)
(* the inner function-calling graph (llm -> route_tools -> tools -> llm)   *)
(* that execute_step runs to its end on every visit.                       *)
(*                                                                         *)
(* Names of the natural-language specification:                            *)
(*   Planning = pc "planner_node", Executing = pc "function_calling_agent",*)
(*   Replanning = pc "replan", Done = pc "__end__";                        *)
(*   Invoking = innerPc "llm", Dispatching = innerPc "tools",              *)
(*   Halted = innerPc "__end__".                                           *)
(* A raised exception leaves the graph it was raised in: pc (and innerPc)  *)
(* become "__raised__" and error records what was raised.                  *)
(***************************************************************************)
EXTENDS Naturals, Sequences, FiniteSets, TLC

VARIABLES
    pc,             \* node of the PlanSolve graph that runs next
    input,          \* PlanSolve.input
    plan,           \* PlanSolve.plan
    past_steps,     \* PlanSolve.past_steps
    plan_completed, \* PlanSolve.plan_completed: "None", "False" or "True"
    innerPc,        \* node of the function-calling graph that runs next
    messages,       \* State.messages of the running function-calling graph
    error,          \* "none", or the exception that ended the run
    nextId,         \* the next tool-call id the model backend hands out
    nodeLog,        \* history: the PlanSolve nodes invoked so far, in order
    initialSteps,   \* history: the number of steps planner_node returned
    observed,       \* history: a finished inner run holds a plan_complete request
    invoked,        \* history: the tool calls handed to a tool's invoke()
    returned        \* history: the steps of the last planning call's answer

vars == <<pc, input, plan, past_steps, plan_completed, innerPc, messages,
          error, nextId, nodeLog, initialSteps, observed, invoked, returned>>

outerVars == <<input, plan, past_steps, plan_completed>>

----------------------------------------------------------------------------
(* Bounds of the model *)

\* tool requests the model backend issues in one PlanSolve run, all turns together
MaxToolCalls == 3
\* visits of the function_calling_agent node in one PlanSolve run
MaxRuns == 2
\* steps of a plan returned by a planning call
MaxPlanLen == 2

----------------------------------------------------------------------------
(* Values *)

END == "__end__"
RAISED == "__raised__"

Min(a, b) == IF a <= b THEN a ELSE b

\* the step descriptions a planning call can return
StepTexts == {"get weather forecast", "plan complete"}

Plans == UNION {[1..n -> StepTexts] : n \in 0..MaxPlanLen}

\* the tool names the model backend can request; get_moon_phase is not registered
RequestedNames == {"get_weather_forecast", "plan_complete", "get_moon_phase"}

\* tools_by_name: the registered tools
tools_by_name == {"get_stock_price", "get_current_weather", "get_weather_forecast",
                  "plot_weather_timeseries", "get_geo_coordinates", "plan_complete"}

\* registered tools whose invoke() can raise: the others catch every exception
\* (or have nothing that fails) and return a value
RaisingTools == {"get_weather_forecast", "plot_weather_timeseries"}

\* str(observation) of a tool that returned
Observation(tool_name) ==
    IF tool_name = "plan_complete"
    THEN <<"Plan execution completed successfully">>
    ELSE <<"result of ", tool_name>>

HumanMessage(content) ==
    [type |-> "human", content |-> content, tool_calls |-> <<>>,
     name |-> "", tool_call_id |-> 0]

AIMessage(tool_calls) ==
    [type |-> "ai", content |-> <<>>, tool_calls |-> tool_calls,
     name |-> "", tool_call_id |-> 0]

ToolMessage(content, name, tool_call_id) ==
    [type |-> "tool", content |-> content, tool_calls |-> <<>>,
     name |-> name, tool_call_id |-> tool_call_id]

\* the responses of the model backend with n tool requests, ids from first on
ToolCallsOf(names, first) ==
    [i \in 1..Len(names) |-> [name |-> names[i], id |-> first + i - 1]]

\* a channel without reducer: the update replaces the value
add_messages_replace(left, right) == right

\* add_messages: the update is appended to the channel
add_messages(left, right) == left \o right

\* a plan channel that accumulates: the update is appended to the old plan
last_value_extend(old, new) == old \o new

\* a channel without reducer (PlanSolve.plan): the update replaces the value
last_value(old, new) == new

\* a past_steps channel without reducer: the update replaces the value
operator_replace(left, right) == right

\* operator.add on lists, the reducer of PlanSolve.past_steps
operator_add(left, right) == left \o right

\* filter_messages(messages, include_types=t)
filter_messages(msgs, t) == SelectSeq(msgs, LAMBDA m : m.type = t)

----------------------------------------------------------------------------
(* function_calling_agent.py: the inner graph's conditional edge *)

\* route_tools with a cap on the length of the history
route_tools_capped(msgs) ==
    IF Len(msgs) = 0 THEN "ValueError"
    ELSE IF Len(msgs) > 4 THEN END
    ELSE IF msgs[Len(msgs)].type = "ai" /\ Len(msgs[Len(msgs)].tool_calls) > 0
         THEN "tools" ELSE END

\* route_tools without the test for tool calls
route_tools_any_ai(msgs) ==
    IF Len(msgs) = 0 THEN "ValueError"
    ELSE IF msgs[Len(msgs)].type = "ai" THEN "tools" ELSE END

\* route_tools: "tools" when the last message is a model message with tool
\* calls, END otherwise; ValueError on an empty message list
route_tools(msgs) ==
    IF Len(msgs) = 0 THEN "ValueError"
    ELSE LET last_message == msgs[Len(msgs)]
         IN IF last_message.type = "ai" /\ Len(last_message.tool_calls) > 0
            THEN "tools"
            ELSE END

----------------------------------------------------------------------------
(* nodes/tool_node.py *)

\* a lookup that finds a tool for every name
tool_to_call_always(tool_name) == TRUE

\* tools_by_name.get(tool_name): truthy when the name is registered
tool_to_call(tool_name) == tool_name \in tools_by_name

\* the observation of one tool call whose tool did not raise
observation(tool_name) ==
    IF tool_to_call(tool_name)
    THEN Observation(tool_name)
    ELSE <<"Tool ", tool_name, " not found">>

\* a routing decision that every call sets anew
next_step_after_reset(tool_name, next_step) ==
    IF tool_name = "plan_complete" THEN END ELSE "llm"

\* the routing decision after one tool call (lines 74-75)
next_step_after(tool_name, next_step) ==
    IF tool_name = "plan_complete" THEN END ELSE next_step

\* the for loop with a break after the plan_complete call
RECURSIVE tool_loop_break(_, _, _, _)
tool_loop_break(tool_calls, i, raiseAt, st) ==
    IF i > Len(tool_calls) THEN st
    ELSE LET tool_call == tool_calls[i]
             tool_name == tool_call.name
             called == IF tool_to_call(tool_name)
                       THEN Append(st.invoked, tool_call)
                       ELSE st.invoked
             after == [messages |-> Append(st.messages,
                                      ToolMessage(observation(tool_name), tool_name,
                                                  tool_call.id)),
                       next_step |-> next_step_after(tool_name, st.next_step),
                       invoked |-> called,
                       raised |-> FALSE]
         IN IF tool_to_call(tool_name) /\ i = raiseAt
            THEN [st EXCEPT !.invoked = called, !.raised = TRUE]
            ELSE IF tool_name = "plan_complete" THEN after
                 ELSE tool_loop_break(tool_calls, i + 1, raiseAt, after)

\* the for loop of tool_node from call i on; raiseAt is the index of the call
\* whose tool raises (0: none does).  st holds the local messages list, the
\* routing decision, the calls handed to invoke() and whether a tool raised.
RECURSIVE tool_loop(_, _, _, _)
tool_loop(tool_calls, i, raiseAt, st) ==
    IF i > Len(tool_calls) THEN st
    ELSE LET tool_call == tool_calls[i]
             tool_name == tool_call.name
             called == IF tool_to_call(tool_name)
                       THEN Append(st.invoked, tool_call)
                       ELSE st.invoked
         IN IF tool_to_call(tool_name) /\ i = raiseAt
            THEN [st EXCEPT !.invoked = called, !.raised = TRUE]
            ELSE tool_loop(tool_calls, i + 1, raiseAt,
                    [messages |-> Append(st.messages,
                                    ToolMessage(observation(tool_name), tool_name,
                                                tool_call.id)),
                     next_step |-> next_step_after(tool_name, st.next_step),
                     invoked |-> called,
                     raised |-> FALSE])

\* tool_node whose loop assigns the messages list instead of appending to it
tool_node_overwrite(msgs, raiseAt) ==
    LET r == tool_loop(msgs[Len(msgs)].tool_calls, 1, raiseAt,
                       [messages |-> <<>>, next_step |-> "llm",
                        invoked |-> <<>>, raised |-> FALSE])
    IN [r EXCEPT !.messages = IF Len(@) = 0 THEN @ ELSE <<@[Len(@)]>>]

\* the tool calls of every message of the history, in order
RECURSIVE all_tool_calls(_)
all_tool_calls(msgs) ==
    IF Len(msgs) = 0 THEN <<>>
    ELSE msgs[1].tool_calls \o all_tool_calls(Tail(msgs))

\* tool_node that dispatches the requests of every model message so far
tool_node_redispatch(msgs, raiseAt) ==
    tool_loop(all_tool_calls(msgs), 1, raiseAt,
              [messages |-> <<>>, next_step |-> "llm",
               invoked |-> <<>>, raised |-> FALSE])

\* tool_node whose Command goes back to tools unless plan_complete was seen
tool_node_stay(msgs, raiseAt) ==
    tool_loop(msgs[Len(msgs)].tool_calls, 1, raiseAt,
              [messages |-> <<>>, next_step |-> "tools",
               invoked |-> <<>>, raised |-> FALSE])

\* tool_node(state): the whole node for a given raising call
tool_node(msgs, raiseAt) ==
    LET most_recent_message == msgs[Len(msgs)]
    IN tool_loop(most_recent_message.tool_calls, 1, raiseAt,
                 [messages |-> <<>>, next_step |-> "llm",
                  invoked |-> <<>>, raised |-> FALSE])

\* the calls of a turn whose tool can raise
CanRaiseAt(tool_calls) ==
    {i \in 1..Len(tool_calls) : tool_calls[i].name \in RaisingTools \cap tools_by_name}

----------------------------------------------------------------------------
(* nodes/execute_step_node.py *)

ToStr(i) == <<"1", "2", "3", "4", "5", "6", "7", "8", "9">>[i]

\* "\n".join(f"{i + 1}. {step}" for i, step in enumerate(plan))
RECURSIVE plan_str(_, _)
plan_str(p, i) ==
    IF i > Len(p) THEN <<>>
    ELSE (IF i > 1 THEN <<"\n">> ELSE <<>>)
         \o <<ToStr(i), ". ", p[i]>> \o plan_str(p, i + 1)

task_formatted(p) ==
    <<"For the following plan: ">> \o plan_str(p, 1)
    \o <<"\n\nYou are tasked with executing these steps above.">>

\* the inner for loop without the name test: any tool call completes
scan_tool_calls_any(tool_calls, j, completed) ==
    IF j > Len(tool_calls) THEN completed ELSE TRUE

\* the inner for loop that looks at the first tool call only
scan_tool_calls_first(tool_calls, j, completed) ==
    IF j > Len(tool_calls) THEN completed
    ELSE IF tool_calls[j].name = "plan_complete" THEN TRUE ELSE completed

\* the inner for loop with another sentinel name than tool_node's
RECURSIVE scan_tool_calls_renamed(_, _, _)
scan_tool_calls_renamed(tool_calls, j, completed) ==
    IF j > Len(tool_calls) THEN completed
    ELSE IF tool_calls[j].name = "plan_completed" THEN TRUE
         ELSE scan_tool_calls_renamed(tool_calls, j + 1, completed)

\* the inner for loop of lines 34-38: stops at the first plan_complete call
RECURSIVE scan_tool_calls(_, _, _)
scan_tool_calls(tool_calls, j, completed) ==
    IF j > Len(tool_calls) THEN completed
    ELSE IF tool_calls[j].name = "plan_complete" THEN TRUE
         ELSE scan_tool_calls(tool_calls, j + 1, completed)

\* the outer for loop of lines 32-38 over the model messages
RECURSIVE scan_ai_messages(_, _, _)
scan_ai_messages(ai_messages, i, completed) ==
    IF i > Len(ai_messages) THEN completed
    ELSE scan_ai_messages(ai_messages, i + 1,
            IF Len(ai_messages[i].tool_calls) > 0
            THEN scan_tool_calls(ai_messages[i].tool_calls, 1, completed)
            ELSE completed)

\* itertools.zip_longest in place of zip: the shorter list is padded
zip_steps_longest(ai_messages, tool_messages) ==
    LET n == IF Len(ai_messages) > Len(tool_messages)
             THEN Len(ai_messages) ELSE Len(tool_messages)
    IN [i \in 1..n |->
          <<IF i <= Len(ai_messages) THEN ai_messages[i].tool_calls ELSE <<>>,
            IF i <= Len(tool_messages) THEN tool_messages[i].content ELSE <<>> >>]

\* a pairing by correlation id: each tool message with the tool calls of the
\* model message that requested it
zip_steps_by_id(ai_messages, tool_messages) ==
    [i \in 1..Len(tool_messages) |->
        LET a == CHOOSE a \in 1..Len(ai_messages) :
                    \E j \in 1..Len(ai_messages[a].tool_calls) :
                        ai_messages[a].tool_calls[j].id = tool_messages[i].tool_call_id
        IN <<ai_messages[a].tool_calls, tool_messages[i].content>>]

\* zip(ai_messages, tool messages) as (tool_calls, content) pairs
zip_steps(ai_messages, tool_messages) ==
    [i \in 1..Min(Len(ai_messages), Len(tool_messages)) |->
        <<ai_messages[i].tool_calls, tool_messages[i].content>>]

\* the update execute_step returns for the final messages of the inner graph
execute_step_update(agent_messages) ==
    LET ai_messages == filter_messages(agent_messages, "ai")
    IN [past_steps |-> zip_steps(ai_messages, filter_messages(agent_messages, "tool")),
        plan_completed |-> IF scan_ai_messages(ai_messages, 1, FALSE)
                           THEN "True" ELSE "False"]

----------------------------------------------------------------------------
(* nodes/planner_nodes.py and plan_solve_agent.py: the outer graph's edges *)

\* state.get("plan_completed", False) as a condition: None and False are falsy
Truthy(v) == v = "True"

\* should_end that looks at the plan only
should_end_plan_only(st) ==
    IF Len(st.plan) = 0 THEN END ELSE "function_calling_agent"

\* should_end that looks at plan_completed only
should_end_flag_only(st) ==
    IF Truthy(st.plan_completed) THEN END ELSE "function_calling_agent"

\* should_end: END when the plan is completed or has no steps
should_end(st) ==
    IF Truthy(st.plan_completed) \/ Len(st.plan) = 0
    THEN END
    ELSE "function_calling_agent"

\* the edges with a conditional edge after the executor as well
NextNode_skip_replan(node, st) ==
    CASE node = "__start__" -> "planner_node"
      [] node = "planner_node" -> "function_calling_agent"
      [] node = "function_calling_agent" ->
            IF Truthy(st.plan_completed) THEN END ELSE "replan"
      [] node = "replan" -> should_end(st)

\* the edges of the PlanSolve graph: the node that follows a node that returned
NextNode(node, st) ==
    CASE node = "__start__" -> "planner_node"
      [] node = "planner_node" -> "function_calling_agent"
      [] node = "function_calling_agent" -> "replan"
      [] node = "replan" -> should_end(st)

\* the PlanSolve state as the nodes see it
StateOf(p, ps, pcpl) == [plan |-> p, past_steps |-> ps, plan_completed |-> pcpl]

----------------------------------------------------------------------------
(* The state machine *)

\* the objectives planner_agent.invoke is given
Objectives == {"compare weather forecast for Toronto and Montreal"}

\* the tool-name lists of a model response when `left` requests remain
NameLists(left) == UNION {[1..n -> RequestedNames] : n \in 0..left}

\* number of function_calling_agent visits started so far
ExecRuns == Len(SelectSeq(nodeLog, LAMBDA n : n = "function_calling_agent"))

\* number of replan visits so far
Replans == Len(SelectSeq(nodeLog, LAMBDA n : n = "replan"))

\* a message list holds a model message with a tool request named plan_complete
HoldsSentinel(msgs) ==
    \E i \in 1..Len(msgs) :
        /\ msgs[i].type = "ai"
        /\ \E j \in 1..Len(msgs[i].tool_calls) :
              msgs[i].tool_calls[j].name = "plan_complete"

\* planner_agent.invoke(input={"input": user_input}): only input is set
Init ==
    /\ pc = NextNode("__start__", StateOf(<<>>, <<>>, "None"))
    /\ input \in Objectives
    /\ plan = <<>>
    /\ past_steps = <<>>
    /\ plan_completed = "None"
    /\ innerPc = "idle"
    /\ messages = <<>>
    /\ error = "none"
    /\ nextId = 1
    /\ nodeLog = <<>>
    /\ initialSteps = 0
    /\ observed = FALSE
    /\ invoked = <<>>
    /\ returned = <<>>

\* an exception that the graph would catch: the run ends normally
Raise_caught(what) ==
    /\ error' = what
    /\ pc' = END
    /\ innerPc' = IF innerPc = "idle" THEN innerPc ELSE END

\* an exception leaves the inner graph (when it runs) and the outer graph
Raise(what) ==
    /\ error' = what
    /\ pc' = RAISED
    /\ innerPc' = IF innerPc = "idle" THEN innerPc ELSE RAISED

\* planner_node with a structured output of the backend
PlannerReturns ==
    /\ pc = "planner_node"
    /\ \E steps \in Plans :
        /\ plan' = last_value(plan, steps)
        /\ plan_completed' = "False"
        /\ initialSteps' = Len(steps)
        /\ returned' = steps
        /\ pc' = NextNode("planner_node", StateOf(plan', past_steps, "False"))
    /\ nodeLog' = Append(nodeLog, "planner_node")
    /\ UNCHANGED <<input, past_steps, innerPc, messages, error, nextId, observed, invoked>>

\* planner_node when the backend call raises
PlannerRaises ==
    /\ pc = "planner_node"
    /\ Raise("BackendCallFailure")
    /\ nodeLog' = Append(nodeLog, "planner_node")
    /\ UNCHANGED <<outerVars, messages, nextId, initialSteps, observed, invoked, returned>>

planner_node == PlannerReturns \/ PlannerRaises

\* execute_step, lines 23-28: the task message, then the inner graph starts
\* (START -> llm)
ExecuteStepInvoke ==
    /\ pc = "function_calling_agent"
    /\ innerPc = "idle"
    /\ ExecRuns < MaxRuns
    /\ messages' = add_messages(<<>>, <<HumanMessage(task_formatted(plan))>>)
    /\ innerPc' = "llm"
    /\ nodeLog' = Append(nodeLog, "function_calling_agent")
    /\ UNCHANGED <<pc, outerVars, error, nextId, initialSteps, observed, invoked, returned>>

\* llm_node with a response of the backend, then the edge route_tools
LlmReturns ==
    /\ innerPc = "llm"
    /\ \E names \in NameLists(MaxToolCalls + 1 - nextId) :
        LET response_message == AIMessage(ToolCallsOf(names, nextId))
            merged == add_messages(messages, <<response_message>>)
            goto == route_tools(merged)
        IN /\ messages' = merged
           /\ nextId' = nextId + Len(names)
           /\ IF goto = "ValueError"
              THEN Raise("ValueError")
              ELSE /\ innerPc' = goto
                   /\ UNCHANGED <<pc, error>>
    /\ UNCHANGED <<outerVars, nodeLog, initialSteps, observed, invoked, returned>>

\* llm_node when the backend call raises: nothing catches it
LlmRaises ==
    /\ innerPc = "llm"
    /\ Raise("BackendCallFailure")
    /\ UNCHANGED <<outerVars, messages, nextId, nodeLog, initialSteps, observed, invoked, returned>>

llm_node == LlmReturns \/ LlmRaises

\* the calls of `calls` tagged with the inner run they belong to
Tagged(calls) == [i \in 1..Len(calls) |-> [run |-> ExecRuns, call |-> calls[i]]]

\* tool_node when every tool returns: Command(goto=next_step, update=messages)
ToolNodeReturns ==
    /\ innerPc = "tools"
    /\ LET r == tool_node(messages, 0)
       IN /\ messages' = add_messages(messages, r.messages)
          /\ innerPc' = r.next_step
          /\ invoked' = invoked \o Tagged(r.invoked)
    /\ UNCHANGED <<pc, outerVars, error, nextId, nodeLog, initialSteps, observed, returned>>

\* tool_node when a tool raises: the exception leaves tool_node, the inner
\* graph, execute_step and the outer graph
ToolNodeRaises ==
    /\ innerPc = "tools"
    /\ \E raiseAt \in CanRaiseAt(messages[Len(messages)].tool_calls) :
        LET r == tool_node(messages, raiseAt)
        IN /\ r.raised
           /\ invoked' = invoked \o Tagged(r.invoked)
    /\ Raise("ToolInvocationFailure")
    /\ UNCHANGED <<outerVars, messages, nextId, nodeLog, initialSteps, observed, returned>>

ToolNode == ToolNodeReturns \/ ToolNodeRaises

\* execute_step over an inner graph that keeps its state between invocations
ExecuteStepReturn_keeps ==
    /\ pc = "function_calling_agent"
    /\ innerPc = END
    /\ LET update == execute_step_update(messages)
       IN /\ past_steps' = operator_add(past_steps, update.past_steps)
          /\ plan_completed' = update.plan_completed
          /\ pc' = NextNode("function_calling_agent",
                            StateOf(plan, past_steps', update.plan_completed))
    /\ observed' = (observed \/ HoldsSentinel(messages))
    /\ innerPc' = "idle"
    /\ UNCHANGED <<input, plan, messages, error, nextId, nodeLog, initialSteps,
                   invoked, returned>>

\* execute_step, lines 29-48, once the inner graph has reached END
ExecuteStepReturn ==
    /\ pc = "function_calling_agent"
    /\ innerPc = END
    /\ LET update == execute_step_update(messages)
       IN /\ past_steps' = operator_add(past_steps, update.past_steps)
          /\ plan_completed' = update.plan_completed
          /\ pc' = NextNode("function_calling_agent",
                            StateOf(plan, past_steps', update.plan_completed))
    /\ observed' = (observed \/ HoldsSentinel(messages))
    /\ messages' = <<>>
    /\ innerPc' = "idle"
    /\ UNCHANGED <<input, plan, error, nextId, nodeLog, initialSteps, invoked, returned>>

\* a replanner_node that also returns plan_completed = False, as planner_node does
ReplannerReturns_resets(choices) ==
    /\ pc = "replan"
    /\ \E steps \in choices :
        /\ plan' = last_value(plan, steps)
        /\ returned' = steps
        /\ pc' = NextNode("replan", StateOf(plan', past_steps, "False"))
    /\ plan_completed' = "False"
    /\ nodeLog' = Append(nodeLog, "replan")
    /\ UNCHANGED <<input, past_steps, innerPc, messages, error,
                   nextId, initialSteps, observed, invoked>>

\* replanner_node with a structured output of the backend among `choices`,
\* then the edge should_end
ReplannerReturns(choices) ==
    /\ pc = "replan"
    /\ \E steps \in choices :
        /\ plan' = last_value(plan, steps)
        /\ returned' = steps
        /\ pc' = NextNode("replan", StateOf(plan', past_steps, plan_completed))
    /\ nodeLog' = Append(nodeLog, "replan")
    /\ UNCHANGED <<input, past_steps, plan_completed, innerPc, messages, error,
                   nextId, initialSteps, observed, invoked>>

\* replanner_node when the backend call raises
ReplannerRaises ==
    /\ pc = "replan"
    /\ Raise("BackendCallFailure")
    /\ nodeLog' = Append(nodeLog, "replan")
    /\ UNCHANGED <<outerVars, messages, nextId, initialSteps, observed, invoked, returned>>

replanner_node == ReplannerReturns(Plans) \/ ReplannerRaises

Next ==
    \/ planner_node
    \/ ExecuteStepInvoke
    \/ llm_node
    \/ ToolNode
    \/ ExecuteStepReturn
    \/ replanner_node

Spec == Init /\ [][Next]_vars

----------------------------------------------------------------------------
(* The PlanSolve loop when every replanning call shortens the plan, no call *)
(* raises and every inner run therefore reaches END.  The graph runtime     *)
(* runs the next node as soon as the previous one returned: weak fairness.  *)

Shorter(p) == {q \in Plans : Len(q) < Len(p)}

ShrinkingReplanner == ReplannerReturns(Shorter(plan))

NextShrink ==
    \/ PlannerReturns
    \/ ExecuteStepInvoke
    \/ LlmReturns
    \/ ToolNodeReturns
    \/ ExecuteStepReturn
    \/ ShrinkingReplanner

SpecShrink == Init /\ [][NextShrink]_vars /\ WF_vars(NextShrink)

----------------------------------------------------------------------------
(* Properties *)

Last(seq) == seq[Len(seq)]

\* the tool requests of the model turn a tool_node visit dispatches
Dispatched == Last(messages).tool_calls

HasSentinel(tool_calls) ==
    \E j \in 1..Len(tool_calls) : tool_calls[j].name = "plan_complete"

\* a replan visit that returned
ReplanReturned == pc = "replan" /\ pc' # "replan" /\ pc' # RAISED

\* the edge taken after a replan visit
ReplanRouted ==
    /\ (pc' = END) <=> (Len(plan') = 0 \/ plan_completed' = "True")
    /\ (pc' # END) => (pc' = "function_calling_agent")

\* C1: after every replanner_node run that returned, the loop moves to Done
\* (END) if and only if the plan has no steps or plan_completed is true, and
\* to Executing (function_calling_agent) otherwise; so in every Done state
\* the plan is empty or plan_completed is true.
C1_ReplanRouting ==
    /\ [][ReplanReturned => ReplanRouted]_vars
    /\ [](pc = END => (Len(plan) = 0 \/ plan_completed = "True"))

\* Done reached through Replanning with steps left in the plan
C1_Witness ==
    /\ pc = END
    /\ Last(nodeLog) = "replan"
    /\ Len(plan) > 0
    /\ plan_completed = "True"

\* C2: the node order is fixed: planner_node runs exactly once and first,
\* every function_calling_agent visit that returned is followed by exactly
\* one replan visit (whatever plan_completed it returned), and Done is only
\* entered from replan.
C2_NodeOrder ==
    /\ pc = "planner_node" <=> nodeLog = <<>>
    /\ \A i \in 1..Len(nodeLog) : (nodeLog[i] = "planner_node") <=> (i = 1)
    /\ \A i \in 1..Len(nodeLog) - 1 :
          /\ nodeLog[i] = "function_calling_agent" => nodeLog[i + 1] = "replan"
          /\ nodeLog[i] = "replan" => nodeLog[i + 1] = "function_calling_agent"
          /\ nodeLog[i] = "planner_node" => nodeLog[i + 1] = "function_calling_agent"
    /\ (nodeLog # <<>> /\ Last(nodeLog) = "function_calling_agent"
            /\ innerPc = "idle" /\ error = "none") => pc = "replan"
    /\ pc = "replan" => Last(nodeLog) = "function_calling_agent"
    /\ pc = END => Last(nodeLog) = "replan"

\* the executor returned plan_completed = true and the replanner still ran
C2_Witness ==
    /\ pc = END
    /\ plan_completed = "True"
    /\ nodeLog = <<"planner_node", "function_calling_agent", "replan",
                   "function_calling_agent", "replan">>

\* C3: when every replanning call returns a plan strictly shorter than the
\* plan it was given and every inner run reaches END, the loop reaches Done,
\* after at most as many replan visits as the initial plan has steps.  (An
\* empty initial plan admits no shorter plan: no run with it meets the
\* condition.)
C3_ShrinkingTerminates ==
    /\ [](initialSteps > 0 => Replans <= initialSteps)
    /\ (pc = "function_calling_agent" /\ initialSteps > 0) ~> (pc = END)

\* Done after exactly as many replan visits as the initial plan has steps
C3_Witness ==
    /\ pc = END
    /\ initialSteps = MaxPlanLen
    /\ Replans = initialSteps

\* a step of planner_node or replanner_node
PlanningVisit == pc = "planner_node" \/ pc = "replan"

\* a step that does not turn plan_completed true
NotMadeTrue == plan_completed' = "True" => plan_completed = "True"

\* C4: plan_completed is true only if a finished inner run holds a model
\* message with a tool request named plan_complete; planner_node and
\* replanner_node never make it true.
C4_CompletionOnlyObserved ==
    /\ [](plan_completed = "True" => observed)
    /\ [][PlanningVisit => NotMadeTrue]_vars

\* the executor returned plan_completed = true
C4_Witness ==
    /\ pc = "replan"
    /\ plan_completed = "True"

\* the inner runs in which plan_complete was handed to invoke()
SentinelRuns ==
    {invoked[k].run : k \in {k \in 1..Len(invoked) :
                                invoked[k].call.name = "plan_complete"}}

\* inner run r has returned to execute_step and execute_step has returned
RunReturned(r) == r < ExecRuns \/ (r = ExecRuns /\ innerPc = "idle")

\* C5: when an inner run dispatches plan_complete, no later
\* function_calling_agent visit starts; once that visit returned,
\* plan_completed is true, only replan follows, and after one replan visit
\* that returned the loop is Done, whatever plan that visit returned.
C5_SentinelEndsLoop ==
    \A r \in SentinelRuns :
        /\ r = ExecRuns
        /\ RunReturned(r) =>
            /\ plan_completed = "True"
            /\ \/ pc = "replan" /\ Replans = r - 1
               \/ pc = END /\ Replans = r
               \/ pc = RAISED /\ error = "BackendCallFailure" /\ Replans = r

\* Done one replan visit after plan_complete was dispatched, with a plan
\* that still has steps
C5_Witness ==
    /\ pc = END
    /\ SentinelRuns # {}
    /\ Len(plan) = MaxPlanLen

\* an llm visit that returned
LlmReturned == innerPc = "llm" /\ innerPc' # "llm" /\ innerPc' # RAISED

\* the last message is a model message with at least one tool request
LastHasRequests(msgs) ==
    /\ Len(msgs) > 0
    /\ Last(msgs).type = "ai"
    /\ Len(Last(msgs).tool_calls) >= 1

\* the edge taken after an llm visit
LlmRouted ==
    /\ (innerPc' = "tools") <=> LastHasRequests(messages')
    /\ (innerPc' # "tools") => (innerPc' = END)

\* C6: after each llm_node run that returned, the inner loop moves to
\* Dispatching (tools) if and only if the last message is a model message
\* with at least one tool request, and to Halted (END) otherwise; so
\* tool_node is only entered with such a last message.
C6_LlmRouting ==
    /\ [][LlmReturned => LlmRouted]_vars
    /\ [](innerPc = "tools" => LastHasRequests(messages))

\* Halted straight after a model message without tool requests
C6_Witness ==
    /\ innerPc = END
    /\ Last(messages).type = "ai"
    /\ Len(Last(messages).tool_calls) = 0
    /\ Len(messages) > 2

\* a tool_node visit that returned its Command
ToolNodeReturned == innerPc = "tools" /\ innerPc' # "tools" /\ innerPc' # RAISED

\* the goto of the Command of a tool_node visit
ToolRouted ==
    /\ (innerPc' = END) <=> HasSentinel(Dispatched)
    /\ (innerPc' # END) => (innerPc' = "llm")

\* C7: the routing decision of tool_node is halt (END) if and only if at
\* least one tool request of the dispatched model turn is named
\* plan_complete; otherwise it is continue and the loop returns to llm.
C7_ToolRouting == [][ToolNodeReturned => ToolRouted]_vars

\* Halted by a turn whose last request is not plan_complete
C7_Witness ==
    /\ innerPc = END
    /\ Last(messages).type = "tool"
    /\ Last(messages).name # "plan_complete"

\* every tool_node visit ends with one ToolResult per request appended and
\* the inner loop going on (to llm or END)
ToolNodeCompleted ==
    /\ innerPc' \in {"llm", END}
    /\ error' = "none"
    /\ Len(messages') = Len(messages) + Len(Dispatched)

\* C8: when a resolved tool raises during dispatch, tool_node catches the
\* failure and appends a ToolResult for that request; the inner loop and the
\* PlanSolve loop go on.
C8_ToolFailureCaught == [][innerPc = "tools" => ToolNodeCompleted]_vars

\* the requests of the dispatched turn whose name is not registered
Unregistered == {j \in 1..Len(Dispatched) : Dispatched[j].name \notin tools_by_name}

\* the ToolResult appended for request j of the dispatched turn
ResultOf(j) == messages'[Len(messages) + j]

\* C9 as stated: a tool_node visit that dispatches a request with an
\* unregistered name ends with the routing decision continue
C9_UnknownToolContinues ==
    [][(ToolNodeReturned /\ Unregistered # {}) => innerPc' = "llm"]_vars

\* what a tool_node visit that returned did for its unregistered requests
UnknownHandled ==
    /\ \A j \in Unregistered :
          /\ ResultOf(j).type = "tool"
          /\ ResultOf(j).content = <<"Tool ", Dispatched[j].name, " not found">>
          /\ ResultOf(j).tool_call_id = Dispatched[j].id
    /\ (Unregistered # {}) => ((innerPc' = "llm") <=> ~HasSentinel(Dispatched))

\* C9 (amended): for a request with an unregistered name tool_node invokes
\* no tool and, when it returns, has appended the ToolResult "Tool <name> not
\* found" for that request; the routing decision of that visit is continue
\* unless a request of the same turn is named plan_complete.
C9_UnknownToolNotFound ==
    /\ [][ToolNodeReturned => UnknownHandled]_vars
    /\ [](\A k \in 1..Len(invoked) : invoked[k].call.name \in tools_by_name)

\* the loop continues after a "not found" result
C9_Witness ==
    /\ innerPc = "llm"
    /\ Last(messages).type = "tool"
    /\ Last(messages).content = <<"Tool ", "get_moon_phase", " not found">>

\* the update of a tool_node visit: one ToolResult per request, in order
ResultsAppended ==
    /\ Len(messages') = Len(messages) + Len(Dispatched)
    /\ SubSeq(messages', 1, Len(messages)) = messages
    /\ \A j \in 1..Len(Dispatched) :
          /\ ResultOf(j).type = "tool"
          /\ ResultOf(j).tool_call_id = Dispatched[j].id
          /\ ResultOf(j).name = Dispatched[j].name

\* C10: for a model turn with n tool requests, a tool_node run that returned
\* appended exactly n ToolResults, in request order, the i-th with the id and
\* the tool name of the i-th request.
C10_OneResultPerRequest == [][ToolNodeReturned => ResultsAppended]_vars

\* two results of one turn, of different tools, at the end of the history
C10_Witness ==
    /\ innerPc = "llm"
    /\ Len(messages) >= 4
    /\ Last(messages).type = "tool"
    /\ messages[Len(messages) - 1].type = "tool"
    /\ messages[Len(messages) - 2].type = "ai"
    /\ Last(messages).name # messages[Len(messages) - 1].name

\* the inner graph has run llm_node at least once and has not been left by
\* an exception
AfterFirstInvocation ==
    /\ innerPc \in {"llm", "tools", END}
    /\ Len(filter_messages(messages, "ai")) > 0

\* the tool requests of the latest model message
LatestRequests == Last(filter_messages(messages, "ai")).tool_calls

\* C11 as stated: after the first model invocation the final message is
\* always a model message, with tool requests while the loop continues and
\* with none when it is Halted
C11_LastIsModelMessage ==
    AfterFirstInvocation =>
        /\ Last(messages).type = "ai"
        /\ (innerPc = END) <=> (Len(Last(messages).tool_calls) = 0)

\* C11 (amended): after the first model invocation the final message is a
\* model message with tool requests in Dispatching, and a model message
\* with none when the loop Halted from Invoking; after a dispatch it is a
\* tool result: the loop is then in Invoking, or Halted when the dispatched
\* turn requested plan_complete.
C11_LastMessageShape ==
    AfterFirstInvocation =>
        /\ innerPc = "tools" => LastHasRequests(messages)
        /\ innerPc = "llm" =>
              /\ Last(messages).type = "tool"
              /\ ~HasSentinel(LatestRequests)
        /\ innerPc = END =>
              \/ Last(messages).type = "ai" /\ Len(Last(messages).tool_calls) = 0
              \/ Last(messages).type = "tool" /\ HasSentinel(LatestRequests)

\* Halted with a tool result as the final message
C11_Witness ==
    /\ innerPc = END
    /\ Last(messages).type = "tool"

\* a is a prefix of b
IsPrefix(a, b) == Len(a) <= Len(b) /\ SubSeq(b, 1, Len(a)) = a

\* a step of a node of the inner graph (llm_node or tool_node)
InnerNodeStep == innerPc = "llm" \/ innerPc = "tools"

\* the history only grew
HistoryExtended == IsPrefix(messages, messages')

\* C12: State.messages is append-only: after every node run of the inner
\* loop the history before the run is a prefix of the history after it.
C12_HistoryAppendOnly == [][InnerNodeStep => HistoryExtended]_vars

\* a history that grew in two llm visits and a tool_node visit
C12_Witness ==
    /\ innerPc = END
    /\ Len(messages) >= 4
    /\ Last(messages).type = "ai"

\* an execute_step visit returns its update
ExecutorReturned == pc = "function_calling_agent" /\ innerPc = END

\* the records execute_step distils from the transcript of the run
RunRecords == execute_step_update(messages).past_steps

\* past_steps after the step: the previous records, then those of the run
RecordsAccumulated ==
    IF ExecutorReturned
    THEN past_steps' = past_steps \o RunRecords
    ELSE past_steps' = past_steps

\* C13: past_steps only grows: after each execute_step run it is the
\* previous sequence followed by the records of that run, and every other
\* node (planner_node, replanner_node, the inner nodes) leaves it unchanged.
C13_PastStepsAccumulate == [][RecordsAccumulated]_vars

\* a second run is about to add its records to those of the first
C13_Witness ==
    /\ ExecutorReturned
    /\ ExecRuns = 2
    /\ Len(past_steps) >= 1
    /\ Len(RunRecords) >= 1

\* the transcript of an inner run that ended after exactly one model turn
\* without tool requests: the task message and that turn
OneTurnNoRequests ==
    /\ Len(messages) = 2
    /\ messages[1].type = "human"
    /\ messages[2].type = "ai"
    /\ Len(messages[2].tool_calls) = 0

EmptyRunReturns == ExecutorReturned /\ Len(plan) >= 1 /\ OneTurnNoRequests

NothingRecorded == past_steps' = past_steps /\ plan_completed' = "False"

\* C14: for every plan with at least one step, when the inner loop ends
\* after exactly one model turn that carries no tool requests, execute_step
\* returns zero step records and plan_completed = False.
C14_EmptyRunRecordsNothing == [][EmptyRunReturns => NothingRecorded]_vars

\* the first run made one model turn without requests and has returned
C14_Witness ==
    /\ pc = "replan"
    /\ ExecRuns = 1
    /\ Replans = 0
    /\ nextId = 1
    /\ Len(plan) >= 1
    /\ past_steps = <<>>
    /\ plan_completed = "False"

\* the step in which a backend call fails
BackendFails == error = "none" /\ error' = "BackendCallFailure"

\* the failing node aborts the run and contributes no state update
AbortsWithoutUpdate ==
    /\ pc' = RAISED
    /\ pc' # END
    /\ UNCHANGED <<outerVars, messages>>

\* a backend failure has ended the run
BackendFailed == error = "BackendCallFailure"

\* the run stays aborted and no node of either graph runs
NothingRuns == pc = RAISED /\ UNCHANGED vars

BackendFailureAborts ==
    /\ BackendFails => AbortsWithoutUpdate
    /\ BackendFailed => NothingRuns

\* C15: a failure of the backend call in llm_node, planner_node or
\* replanner_node is caught by no node: it aborts the run without a state
\* update of the failing node, no node of the inner or outer graph runs
\* afterwards, and the run does not end in Done (END).
C15_BackendFailureAborts == [][BackendFailureAborts]_vars

\* the backend failed in llm_node after a tool dispatch
C15_Witness ==
    /\ error = "BackendCallFailure"
    /\ pc = RAISED
    /\ innerPc = RAISED
    /\ Len(messages) >= 3

\* the k-th tool message of the transcript, whose content record k stores
ResultMessage(k) == filter_messages(messages, "tool")[k]

\* record k holds a request with the correlation id of the result it stores
AnswersOwnRequest(k) ==
    \E j \in 1..Len(RunRecords[k][1]) :
        RunRecords[k][1][j].id = ResultMessage(k).tool_call_id

\* C16: every step record execute_step emits pairs a model message's tool
\* requests with a tool output that answers one of them: the tool message
\* whose content the record stores has the tool_call_id of a request stored
\* in the same record, also when a model turn carries several requests
\* (stated for runs on a plan with at least one step).
C16_RecordPairsOwnResult ==
    ExecutorReturned /\ Len(plan) >= 1 =>
        \A k \in 1..Len(RunRecords) : AnswersOwnRequest(k)

\* the number of messages of type t in the transcript
CountOf(t) == Cardinality({q \in 1..Len(messages) : messages[q].type = t})

\* the position in the transcript of the i-th message of type t
PosOf(t, i) ==
    CHOOSE p \in 1..Len(messages) :
        /\ messages[p].type = t
        /\ Cardinality({q \in 1..p : messages[q].type = t}) = i

\* the records the returning run adds, read from past_steps after the step
PositionalRecords ==
    LET n == Min(CountOf("ai"), CountOf("tool"))
    IN /\ Len(past_steps') = Len(past_steps) + n
       /\ \A i \in 1..n :
            past_steps'[Len(past_steps) + i] =
                <<messages[PosOf("ai", i)].tool_calls,
                  messages[PosOf("tool", i)].content>>

\* C17: execute_step distils the transcript positionally: the i-th record
\* of a run pairs the tool requests of the i-th model message with the
\* content of the i-th tool message, and the run emits as many records as
\* the minimum of the numbers of model messages and of tool messages.
C17_PositionalRecords == [][ExecutorReturned => PositionalRecords]_vars

\* a returned run whose second record pairs a model turn without requests
\* with the second result of the first turn
C17_Witness ==
    /\ pc = "replan"
    /\ Len(past_steps) >= 2
    /\ Len(past_steps[1][1]) = 2
    /\ Len(past_steps[2][1]) = 0

\* the tool messages of the history with correlation id `id`
ResultsFor(id) ==
    {p \in 1..Len(messages) :
        messages[p].type = "tool" /\ messages[p].tool_call_id = id}

\* every request of every model message has exactly one result
EachRequestAnsweredOnce ==
    \A p \in 1..Len(messages) :
        messages[p].type = "ai" =>
            \A j \in 1..Len(messages[p].tool_calls) :
                Cardinality(ResultsFor(messages[p].tool_calls[j].id)) = 1

\* no tool was invoked twice for the same request of the same run
NoRepeatedDispatch ==
    \A a, b \in 1..Len(invoked) : a # b => invoked[a] # invoked[b]

\* C18: every tool request issued during one inner run is dispatched
\* exactly once: when the loop is Halted (END) each request id of the
\* history has exactly one tool message with that tool_call_id, and no
\* request is dispatched again by a later tool_node visit.
C18_DispatchedExactlyOnce ==
    /\ innerPc = END => EachRequestAnsweredOnce
    /\ NoRepeatedDispatch

\* Halted after two tool_node visits for requests of two model turns
C18_Witness ==
    /\ innerPc = END
    /\ CountOf("ai") >= 3
    /\ CountOf("tool") >= 2
    /\ Len(invoked) >= 2

\* the inner graph starts with llm, llm is followed by tools or the end of
\* the run, tools by llm or the end of the run
VisitsAlternate ==
    /\ innerPc = "idle" /\ innerPc' # "idle" => innerPc' = "llm"
    /\ innerPc = "llm" => innerPc' \in {"tools", END, RAISED}
    /\ innerPc = "tools" => innerPc' \in {"llm", END, RAISED}

\* the tools a tool_node visit invokes were requested by the latest model turn
DispatchesLatestTurn ==
    innerPc = "tools" =>
        \A a \in Len(invoked) + 1..Len(invoked') :
            \E j \in 1..Len(Dispatched) : invoked'[a].call = Dispatched[j]

\* the history the model is invoked with holds a result for every request
EarlierResultsVisible == innerPc = "llm" => EachRequestAnsweredOnce

AlternatingLoop ==
    /\ VisitsAlternate
    /\ DispatchesLatestTurn
    /\ EarlierResultsVisible'

\* C19: llm and tool_node visits of the inner loop strictly alternate,
\* starting with llm: two tool_node visits are separated by a model
\* invocation, requests of different model turns are dispatched in
\* different visits, and the results of the earlier visit are in the
\* history before the model issues the later requests.
C19_VisitsAlternate == [][AlternatingLoop]_vars

\* two sequential tool calls: the model is about to be invoked a third time
\* after two tool_node visits, one per model turn
C19_Witness ==
    /\ innerPc = "llm"
    /\ Len(messages) = 5
    /\ messages[2].type = "ai" /\ messages[3].type = "tool"
    /\ messages[4].type = "ai" /\ messages[5].type = "tool"

\* execute_step is invoked with an empty plan
EmptyPlanInvoked ==
    pc = "function_calling_agent" /\ innerPc = "idle" /\ Len(plan) = 0

\* llm_node is invoked with an empty history
EmptyHistoryInvoked == innerPc = "llm" /\ Len(messages) = 0

\* the visit aborts with an error, the inner loop and the backend are not
\* run and the state gets no update
FailsFast ==
    /\ error' # "none"
    /\ pc' = RAISED
    /\ innerPc' \in {"idle", RAISED}
    /\ UNCHANGED <<outerVars, messages, nextId>>

\* C20: a node invoked with a state that violates its precondition fails
\* fast: llm_node invoked with an empty history and execute_step invoked
\* with an empty plan abort with an error before the model backend is
\* called or the inner loop runs, and produce no state update.
C20_ContractViolationFailsFast ==
    [][EmptyPlanInvoked \/ EmptyHistoryInvoked => FailsFast]_vars

\* C21: the plan is non-empty at every entry to Executing: execute_step
\* (function_calling_agent) is never invoked with a plan of zero steps,
\* neither after planner_node nor after replanner_node.
C21_PlanNonEmptyAtExecuting ==
    pc = "function_calling_agent" => Len(plan) >= 1

\* a planner_node or replanner_node visit that returned
PlanningReturned == (pc = "planner_node" \/ pc = "replan") /\ pc' # RAISED

\* the plan after the step: the answer of the planning call, else the old plan
PlanIsAnswer ==
    IF PlanningReturned THEN plan' = returned' ELSE plan' = plan

\* C22: after each planner_node or replanner_node run the plan is exactly
\* the step list that planning call returned, in the returned order, with
\* no step of the previous plan kept unless returned; execute_step and the
\* inner nodes never change the plan.
C22_PlanReplacedWholesale == [][PlanIsAnswer]_vars

\* the replanner answered a two-step plan with one different, shorter plan
C22_Witness ==
    /\ pc = "function_calling_agent"
    /\ Replans = 1
    /\ initialSteps = 2
    /\ plan = <<"plan complete">>
    /\ returned = plan

\* what a step of each node of the PlanSolve graph leaves unchanged
PlannerFrame == pc = "planner_node" => UNCHANGED <<input, past_steps>>

ExecutorFrame == pc = "function_calling_agent" => UNCHANGED <<input, plan>>

\* until execute_step returns, the PlanSolve state is not written at all
InnerFrame ==
    pc = "function_calling_agent" /\ innerPc # END => UNCHANGED outerVars

ReplannerFrame ==
    pc = "replan" => UNCHANGED <<input, past_steps, plan_completed>>

NodeFrames ==
    /\ PlannerFrame
    /\ ExecutorFrame
    /\ InnerFrame
    /\ ReplannerFrame
    /\ input' = input

\* C23: each node of the PlanSolve graph writes only its own fields:
\* planner_node writes plan and plan_completed only, execute_step writes
\* past_steps and plan_completed only, replanner_node writes plan only;
\* input is set at loop entry and no node changes it.
C23_NodeFrames == [][NodeFrames]_vars

\* the replanner returned a plan and left the records and the completion
\* flag of the executor as they were
C23_Witness ==
    /\ pc = END
    /\ Replans = 1
    /\ plan_completed = "True"
    /\ Len(plan) >= 1
    /\ Len(past_steps) >= 1

\* the content of a task message rendered from the steps of plan p: the
\* heading, the numbered steps in order, the instruction
RenderedFrom(content, p) ==
    /\ Len(content) = (IF Len(p) = 0 THEN 2 ELSE 4 * Len(p) + 1)
    /\ \A i \in 1..Len(p) : content[4 * i - 2] = ToStr(i) /\ content[4 * i] = p[i]

\* the ids of the tool calls invoked in inner runs before the current one
EarlierIds == {invoked[a].call.id : a \in {b \in 1..Len(invoked) : invoked[b].run < ExecRuns}}

\* the ids of the requests and results of a message list
IdsIn(msgs) ==
    {msgs[p].tool_call_id : p \in {q \in 1..Len(msgs) : msgs[q].type = "tool"}}
    \cup UNION {{msgs[p].tool_calls[j].id : j \in 1..Len(msgs[p].tool_calls)} :
                    p \in 1..Len(msgs)}

\* the history of a running or halted inner run: one human message, rendered
\* from the current plan, then messages of this run only
FreshHistory ==
    /\ Len(messages) >= 1
    /\ messages[1].type = "human"
    /\ RenderedFrom(messages[1].content, plan)
    /\ CountOf("human") = 1
    /\ IdsIn(messages) \cap EarlierIds = {}

\* between inner runs no inner state exists
InnerStateScoped ==
    /\ innerPc = "idle" => messages = <<>>
    /\ innerPc \in {"llm", "tools", END} => FreshHistory

\* execute_step starts the inner graph on the task message alone
SeededWithTask ==
    pc = "function_calling_agent" /\ innerPc = "idle" /\ innerPc' # "idle" =>
        Len(messages') = 1 /\ innerPc' = "llm"

\* the records a returning run adds name requests of that run only
RecordsFromOwnRun ==
    ExecutorReturned =>
        \A k \in Len(past_steps) + 1..Len(past_steps') :
            \A j \in 1..Len(past_steps'[k][1]) :
                /\ past_steps'[k][1][j].id \in IdsIn(messages)
                /\ past_steps'[k][1][j].id \notin EarlierIds

FreshInnerRun ==
    /\ InnerStateScoped'
    /\ SeededWithTask
    /\ RecordsFromOwnRun

\* C24: every execute_step invocation starts a fresh inner loop whose
\* initial history is exactly one human message rendered from the current
\* plan; no message of an earlier inner run appears in a later run's
\* history, and the records a run returns come from its own transcript.
C24_FreshInnerRun == [][FreshInnerRun]_vars

\* a second inner run, after a first one that invoked a tool, has received
\* a result of its own
C24_Witness ==
    /\ ExecRuns = 2
    /\ innerPc = "llm"
    /\ EarlierIds # {}
    /\ Len(messages) = 3
    /\ Len(plan) = 2

\* what the scan of execute_step finds in a transcript
ScanFinds(msgs) == execute_step_update(msgs).plan_completed

\* the step in which the inner loop halts, by tool_node's Command or by
\* route_tools after llm_node
HaltsFromTools == innerPc = "tools" /\ innerPc' = END

HaltsFromLlm == innerPc = "llm" /\ innerPc' = END

\* the transcript of a halted run shows which node halted it: tool_node
\* appends results last, llm_node a model message without requests
EndedByTools == Last(messages).type = "tool"

EndedByLlm == Last(messages).type = "ai" /\ Len(Last(messages).tool_calls) = 0

DetectionsAgree ==
    /\ HaltsFromTools => ScanFinds(messages') = "True" /\ EndedByTools'
    /\ HaltsFromLlm => ScanFinds(messages') = "False" /\ EndedByLlm'
    /\ ExecutorReturned =>
          /\ (plan_completed' = "True") <=> EndedByTools
          /\ (plan_completed' = "False") <=> EndedByLlm

\* C25: the two completion detections agree: for every inner run,
\* execute_step returns plan_completed = True if and only if the run
\* halted through tool_node's halt decision, and plan_completed = False if
\* and only if it halted after llm_node on a model message without tool
\* requests.
C25_DetectionsAgree == [][DetectionsAgree]_vars

\* a first run halted after llm_node and returned False, a second run was
\* halted by tool_node and returned True
C25_Witness ==
    /\ pc = "replan"
    /\ ExecRuns = 2
    /\ Replans = 1
    /\ plan_completed = "True"
    /\ observed

\* a tool_node visit that returned for a turn which requests plan_complete
SentinelTurnReturned == ToolNodeReturned /\ HasSentinel(Dispatched)

\* the calls this tool_node visit handed to a tool
NewlyInvoked ==
    {invoked'[a].call : a \in Len(invoked) + 1..Len(invoked')}

\* every request of the turn, those after plan_complete included, got its
\* result in request order and every registered one was invoked; the visit
\* then halts the loop
WholeTurnDispatched ==
    /\ Len(messages') = Len(messages) + Len(Dispatched)
    /\ \A j \in 1..Len(Dispatched) :
          /\ ResultOf(j).type = "tool"
          /\ ResultOf(j).tool_call_id = Dispatched[j].id
          /\ ResultOf(j).name = Dispatched[j].name
          /\ Dispatched[j].name \in tools_by_name => Dispatched[j] \in NewlyInvoked
    /\ innerPc' = END

\* C26: a plan_complete request does not cut a model turn short: tool_node
\* still invokes every later request of the turn and appends its result
\* before the loop halts, and the halt decision, once set, is not reset by
\* a later request of the same turn.
C26_SentinelDoesNotCutTurn == [][SentinelTurnReturned => WholeTurnDispatched]_vars

\* halted by a turn [plan_complete, get_weather_forecast]: the forecast was
\* invoked after plan_complete and its result is the last message
C26_Witness ==
    /\ innerPc = END
    /\ Last(messages).type = "tool"
    /\ Last(messages).name = "get_weather_forecast"
    /\ Len(LatestRequests) = 2
    /\ LatestRequests[1].name = "plan_complete"
    /\ invoked[Len(invoked)].call = LatestRequests[2]

\* a model response with at least one request keeps the loop going
RequestsAreDispatched ==
    LlmReturned /\ LastHasRequests(messages') => innerPc' = "tools"

\* a dispatched turn without plan_complete hands the loop back to the model
TurnContinues ==
    ToolNodeReturned /\ ~HasSentinel(Dispatched) => innerPc' = "llm"

\* Halted is reached only by a response without requests or by a turn that
\* requests plan_complete, whatever the number of iterations so far
HaltedByResponse ==
    innerPc = END => Len(LatestRequests) = 0 \/ HasSentinel(LatestRequests)

NoIterationCap ==
    /\ RequestsAreDispatched
    /\ TurnContinues
    /\ HaltedByResponse'

\* C27: the inner loop has no hard iteration cap: as long as every model
\* response carries at least one tool request and none of them is
\* plan_complete, the loop keeps alternating llm and tools and does not
\* reach Halted (END), for any number of iterations.
C27_NoIterationCap == [][NoIterationCap]_vars

\* as many llm and tool_node visits in one run as the backend's requests
\* allow, one request per turn, and the loop is back at llm
C27_Witness ==
    /\ innerPc = "llm"
    /\ CountOf("ai") = MaxToolCalls
    /\ CountOf("tool") = MaxToolCalls
    /\ Len(messages) = 2 * MaxToolCalls + 1

====
